---------------------------- MODULE Spec2Model ----------------------------
(***************************************************************************)
(* WattWise: the resilient analysis pipeline of services/geminiService.ts  *)
(* (response sanitizer, retry helper, analyzeBOM / reEstimateItems).       *)
(*                                                                         *)
(* A text is a sequence of tokens.  A token stands for one lexical unit of *)
(* the JavaScript string: a structural character, the double quote, one    *)
(* whitespace character, a digit, or a run of characters the code treats   *)
(* as a unit (a word, a code fence, "<think>", "</think>").  Positions are *)
(* 1-based; the JavaScript result -1 ("not found") is 0 here, so every     *)
(* position comparison of the code keeps its meaning.                      *)
(***************************************************************************)
EXTENDS Integers, Sequences, FiniteSets, TLC

\* ------------------------------------------------------------------------
\* Tokens
\* ------------------------------------------------------------------------
Q == "\""
WS == " "
Digits == {"1", "2", "3"}
Literals == {"null", "true", "false"}
ThinkOpen == {"<think>", "<THINK>"}
ThinkClose == {"</think>", "</THINK>"}
\* the markdown code-fence marker (three backticks)
Fence == "FENCE"

\* ------------------------------------------------------------------------
\* JSON values: one record shape for every kind of value
\* ------------------------------------------------------------------------
NoVal == [t |-> "none", s |-> <<>>, keys |-> <<>>, kids |-> <<>>]
Str(chars) == [t |-> "str", s |-> chars, keys |-> <<>>, kids |-> <<>>]
Num(digits) == [t |-> "num", s |-> digits, keys |-> <<>>, kids |-> <<>>]
Lit(tok) == [t |-> "lit", s |-> <<tok>>, keys |-> <<>>, kids |-> <<>>]
Arr(kids) == [t |-> "arr", s |-> <<>>, keys |-> <<>>, kids |-> kids]
Obj(keys, kids) == [t |-> "obj", s |-> <<>>, keys |-> keys, kids |-> kids]

\* o[k] = v of a JavaScript object: a repeated key keeps its first position
\* and takes the last value.
ObjPut(o, k, v) ==
    IF \E j \in 1..Len(o.keys) : o.keys[j] = k
    THEN LET j == CHOOSE j \in 1..Len(o.keys) : o.keys[j] = k
         IN  Obj(o.keys, [o.kids EXCEPT ![j] = v])
    ELSE Obj(Append(o.keys, k), Append(o.kids, v))

\* ------------------------------------------------------------------------
\* String primitives of the code
\* ------------------------------------------------------------------------
\* pat occurs in s at position i
OccursAt(s, pat, i) ==
    /\ i >= 1
    /\ i + Len(pat) - 1 <= Len(s)
    /\ \A j \in 1..Len(pat) : s[i + j - 1] = pat[j]

\* s.indexOf(pat, from): the first position >= from, 0 when there is none
IndexOfFrom(s, pat, from) ==
    LET lo == IF from < 1 THEN 1 ELSE from
        hits == {i \in lo..Len(s) : OccursAt(s, pat, i)}
    IN  IF hits = {} THEN 0 ELSE CHOOSE i \in hits : \A j \in hits : i <= j

IndexOf(s, pat) == IndexOfFrom(s, pat, 1)

\* s.lastIndexOf(pat)
LastIndexOf(s, pat) ==
    LET hits == {i \in 1..Len(s) : OccursAt(s, pat, i)}
    IN  IF hits = {} THEN 0 ELSE CHOOSE i \in hits : \A j \in hits : i >= j

\* s.includes(pat)
Includes(s, pat) == IndexOf(s, pat) # 0

\* s.substring(a, b) for 0-based a <= b, given as 1-based first and last
Substring(s, first, last) == SubSeq(s, first, last)

\* s.trim()
RECURSIVE TrimLeft(_)
TrimLeft(s) == IF s # <<>> /\ Head(s) = WS THEN TrimLeft(Tail(s)) ELSE s

RECURSIVE TrimRight(_)
TrimRight(s) ==
    IF s # <<>> /\ s[Len(s)] = WS THEN TrimRight(SubSeq(s, 1, Len(s) - 1)) ELSE s

Trim(s) == TrimRight(TrimLeft(s))

\* position of the first closing think tag at or after i, 0 when none
RECURSIVE FirstThinkClose(_, _)
FirstThinkClose(s, i) ==
    IF i > Len(s) THEN 0
    ELSE IF s[i] \in ThinkClose THEN i
    ELSE FirstThinkClose(s, i + 1)

\* content.replace(/<think>[\s\S]*?<\/think>/gi, ""): scanning from the left,
\* an opening tag with a closing tag after it is removed together with
\* everything up to the nearest closing tag; the scan resumes after it.
RECURSIVE RemoveThink(_)
RemoveThink(s) ==
    IF s = <<>> THEN <<>>
    ELSE IF Head(s) \in ThinkOpen /\ FirstThinkClose(s, 2) # 0
         THEN RemoveThink(SubSeq(s, FirstThinkClose(s, 2) + 1, Len(s)))
         ELSE <<Head(s)>> \o RemoveThink(Tail(s))

\* content.replace(/```json/g, "")
RECURSIVE RemoveFenceJson(_)
RemoveFenceJson(s) ==
    IF s = <<>> THEN <<>>
    ELSE IF OccursAt(s, <<Fence, "json">>, 1)
         THEN RemoveFenceJson(SubSeq(s, 3, Len(s)))
         ELSE <<Head(s)>> \o RemoveFenceJson(Tail(s))

\* content.replace(/```/g, "")
RemoveFence(s) == SelectSeq(s, LAMBDA c : c # Fence)

\* steps 1-3 of cleanAndParseJSON
CleanContent(rawContent) == Trim(RemoveFence(RemoveFenceJson(RemoveThink(rawContent))))


\* ------------------------------------------------------------------------
\* JSON.parse: a recursive-descent parser of the token text.
\* A parse step returns [ok, next, val]: whether it succeeded, the position
\* after what it consumed, and the value.
\* ------------------------------------------------------------------------
Fail == [ok |-> FALSE, next |-> 0, val |-> NoVal]
Okay(next, val) == [ok |-> TRUE, next |-> next, val |-> val]

RECURSIVE SkipWs(_, _)
SkipWs(t, i) == IF i <= Len(t) /\ t[i] = WS THEN SkipWs(t, i + 1) ELSE i

\* t[i] is the opening quote: the string runs to the next quote
StringClosed(t, i, close) ==
    IF close = 0 THEN Fail ELSE Okay(close + 1, Str(SubSeq(t, i + 1, close - 1)))

ParseString(t, i) == StringClosed(t, i, IndexOfFrom(t, <<Q>>, i + 1))

RECURSIVE DigitsEnd(_, _)
DigitsEnd(t, i) == IF i <= Len(t) /\ t[i] \in Digits THEN DigitsEnd(t, i + 1) ELSE i

NumberEnds(t, i, j) == Okay(j, Num(SubSeq(t, i, j - 1)))

ParseNumber(t, i) == NumberEnds(t, i, DigitsEnd(t, i))

RECURSIVE ParseValue(_, _), ParseElems(_, _, _), ParseMembers(_, _, _)

\* after an element: "]" ends the array, "," continues it
ElemsNext(t, j, acc) ==
    IF j > Len(t) THEN Fail
    ELSE IF t[j] = "]" THEN Okay(j + 1, Arr(acc))
    ELSE IF t[j] = "," THEN ParseElems(t, SkipWs(t, j + 1), acc)
    ELSE Fail

ElemParsed(t, v, acc) ==
    IF ~v.ok THEN Fail ELSE ElemsNext(t, SkipWs(t, v.next), Append(acc, v.val))

\* the elements of an array, t[i] being the start of the next one
ParseElems(t, i, acc) == ElemParsed(t, ParseValue(t, i), acc)

\* after a member: "}" ends the object, "," continues it
MembersNext(t, j, acc) ==
    IF j > Len(t) THEN Fail
    ELSE IF t[j] = "}" THEN Okay(j + 1, acc)
    ELSE IF t[j] = "," THEN ParseMembers(t, SkipWs(t, j + 1), acc)
    ELSE Fail

MemberParsed(t, k, v, acc) ==
    IF ~v.ok THEN Fail ELSE MembersNext(t, SkipWs(t, v.next), ObjPut(acc, k, v.val))

KeyParsed(t, k, c, acc) ==
    IF c > Len(t) \/ t[c] # ":" THEN Fail
    ELSE MemberParsed(t, k.val.s, ParseValue(t, SkipWs(t, c + 1)), acc)

KeyRead(t, k, acc) == IF ~k.ok THEN Fail ELSE KeyParsed(t, k, SkipWs(t, k.next), acc)

\* the members of an object, t[i] being the start of the next key
ParseMembers(t, i, acc) ==
    IF i > Len(t) \/ t[i] # Q THEN Fail ELSE KeyRead(t, ParseString(t, i), acc)

ArrayOpened(t, j) ==
    IF j <= Len(t) /\ t[j] = "]" THEN Okay(j + 1, Arr(<<>>)) ELSE ParseElems(t, j, <<>>)

ObjectOpened(t, j) ==
    IF j <= Len(t) /\ t[j] = "}" THEN Okay(j + 1, Obj(<<>>, <<>>))
    ELSE ParseMembers(t, j, Obj(<<>>, <<>>))

ParseValue(t, i) ==
    IF i > Len(t) THEN Fail
    ELSE IF t[i] = Q THEN ParseString(t, i)
    ELSE IF t[i] \in Digits THEN ParseNumber(t, i)
    ELSE IF t[i] \in Literals THEN Okay(i + 1, Lit(t[i]))
    ELSE IF t[i] = "[" THEN ArrayOpened(t, SkipWs(t, i + 1))
    ELSE IF t[i] = "{" THEN ObjectOpened(t, SkipWs(t, i + 1))
    ELSE Fail

\* the whole text must be one value
WholeText(text, v) ==
    IF v.ok /\ SkipWs(text, v.next) = Len(text) + 1
    THEN [ok |-> TRUE, val |-> v.val]
    ELSE [ok |-> FALSE, val |-> NoVal]

\* JSON.parse(text): [ok |-> FALSE] stands for the SyntaxError it throws
JSONParse(text) == WholeText(text, ParseValue(text, SkipWs(text, 1)))

\* ------------------------------------------------------------------------
\* cleanAndParseJSON
\* ------------------------------------------------------------------------
Threw == [ok |-> FALSE, via |-> "throw", val |-> NoVal]
Returned(via, val) == [ok |-> TRUE, via |-> via, val |-> val]

\* content.substring(firstBrace, last + 1) + ']}'
Candidate(content, firstBrace, last) ==
    Substring(content, firstBrace, last) \o <<"]", "}">>

\* Case A applies: the last "}," lies after the array start
CaseAApplies(lastCommaBrace, arrayStart) == lastCommaBrace > arrayStart

\* Case B applies: the last "}" lies after the array start
CaseBApplies(lastBrace, arrayStart) == lastBrace > arrayStart

\* the catch block: the repair of a truncated "items" array
RepairTruncated(content) ==
    LET firstBrace == IndexOf(content, <<"{">>)
        itemsStart == IndexOf(content, <<Q, "items", Q>>)
        arrayStart == IndexOfFrom(content, <<"[">>, itemsStart)
        lastCommaBrace == LastIndexOf(content, <<"}", ",">>)
        lastBrace == LastIndexOf(content, <<"}">>)
        parsedA == JSONParse(Candidate(content, firstBrace, lastCommaBrace))
        parsedB == JSONParse(Candidate(content, firstBrace, lastBrace))
    IN  IF firstBrace = 0 THEN Threw
        ELSE IF itemsStart # 0 /\ arrayStart # 0
        THEN IF CaseAApplies(lastCommaBrace, arrayStart) /\ parsedA.ok
             THEN Returned("A", parsedA.val)
             ELSE IF CaseBApplies(lastBrace, arrayStart) /\ parsedB.ok
             THEN Returned("B", parsedB.val)
             ELSE Threw
        ELSE Threw

\* [ok |-> FALSE] stands for the SyntaxError of the first JSON.parse, re-thrown
cleanAndParseJSON(rawContent) ==
    LET content == CleanContent(rawContent)
        direct == JSONParse(content)
    IN  IF direct.ok THEN Returned("direct", direct.val)
        ELSE RepairTruncated(content)

\* v.items of a parsed value: NoVal stands for undefined
Member(v, k) ==
    IF v.t = "obj" /\ \E j \in 1..Len(v.keys) : v.keys[j] = k
    THEN v.kids[CHOOSE j \in 1..Len(v.keys) : v.keys[j] = k]
    ELSE NoVal

\* JavaScript truthiness of a value
Truthy(v) ==
    CASE v.t = "none" -> FALSE
      [] v.t = "lit" -> v.s = <<"true">>
      [] v.t = "str" -> v.s # <<>>
      [] OTHER -> TRUE

\* parsed.items || []
ItemsOf(parsed) ==
    IF Truthy(Member(parsed, <<"items">>)) THEN Member(parsed, <<"items">>) ELSE Arr(<<>>)

\* ------------------------------------------------------------------------
\* Errors.  A message is a sequence of words; `at` is the attempt that raised
\* the error and tells the error objects of different attempts apart.
\* status 0 and code "" stand for an absent field.
\* ------------------------------------------------------------------------
Err(name, status, code, message) ==
    [name |-> name, status |-> status, code |-> code, message |-> message, at |-> 0]

NoErr == Err("none", 0, "", <<>>)

\* new Error("API Key is required")
ConfigurationError == Err("Error", 0, "", <<"API", "Key", "is", "required">>)
\* new Error("No response from AI")
EmptyResponse == Err("Error", 0, "", <<"No", "response", "from", "AI">>)
\* the SyntaxError of JSON.parse, re-thrown by cleanAndParseJSON
MalformedResponse == Err("SyntaxError", 0, "", <<"Unexpected", "end", "of", "JSON", "input">>)
\* the TypeError of reading .items of null
NullItems == Err("TypeError", 0, "", <<"Cannot", "read", "properties", "of", "null">>)

\* failures of openai.chat.completions.create
Http429 == Err("RateLimitError", 429, "", <<"429", "Too", "Many", "Requests">>)
RateCode == Err("APIError", 0, "rate_limit_exceeded", <<"Quota", "exceeded">>)
RateMsgMixed == Err("Error", 0, "", <<"fetch", "failed:", "rate", "limit", "hit,", "no", "JSON">>)
FetchBadJSON == Err("Error", 0, "", <<"fetch", "returned", "invalid", "JSON">>)
FailedToFetch == Err("TypeError", 0, "", <<"Failed", "to", "fetch">>)
Http401 == Err("AuthenticationError", 401, "", <<"401", "No", "auth", "credentials">>)

BackendErrors == {Http429, RateCode, RateMsgMixed, FetchBadJSON, FailedToFetch, Http401}

\* ------------------------------------------------------------------------
\* withRetry's classification of a caught error
\* ------------------------------------------------------------------------
isRateLimit(error) ==
    \/ error.status = 429
    \/ Includes(error.message, <<"rate", "limit">>)
    \/ error.code = "rate_limit_exceeded"

isParseError(error) ==
    error.name = "SyntaxError" \/ Includes(error.message, <<"JSON">>)

isNetworkError(error) == Includes(error.message, <<"fetch">>)

ShouldRetry_Always(error) == TRUE
ShouldRetry(error) == isRateLimit(error) \/ isParseError(error) \/ isNetworkError(error)

ErrorType(error) ==
    IF isRateLimit(error) THEN "Rate Limit"
    ELSE IF isParseError(error) THEN "Parse Error"
    ELSE "Network Error"

\* if (retriesLeft <= 0) throw error
Exhausted_OffByOne(retriesLeft) == retriesLeft <= 1
Exhausted_Late(retriesLeft) == retriesLeft < 0
Exhausted(retriesLeft) == retriesLeft <= 0

\* the delay of the recursive call: delay * 2
NextDelay_Constant(delay) == delay
NextDelay(delay) == delay * 2

\* notifications given to onRetry
NullNote == [kind |-> "null", attempt |-> 0, errorType |-> "", seconds |-> 0]
\* `Attempt ${attempt} failed (${errorType}). Retrying in ${delay/1000}s...`
RetryNote(attempt, error, delay) ==
    [kind |-> "msg", attempt |-> attempt, errorType |-> ErrorType(error),
     seconds |-> delay \div 1000]

\* if (attempt > 1 && onRetry) onRetry(null)
ClearOnAttempt_Never(notes, attempt, onRetry) == notes
ClearOnAttempt_Always(notes, attempt, onRetry) ==
    IF onRetry THEN Append(notes, NullNote) ELSE notes
ClearOnAttempt(notes, attempt, onRetry) ==
    IF attempt > 1 /\ onRetry THEN Append(notes, NullNote) ELSE notes

\* if (onRetry) onRetry(msg)
NotifyRetry(notes, attempt, error, delay, onRetry) ==
    IF onRetry THEN Append(notes, RetryNote(attempt, error, delay)) ELSE notes

\* the settled promise of a call
NoResult == [kind |-> "none", val |-> NoVal, err |-> NoErr]
Resolved(val) == [kind |-> "ok", val |-> val, err |-> NoErr]
Thrown_Wrapped(error) ==
    [kind |-> "throw", val |-> NoVal,
     err |-> [error EXCEPT !.name = "Error", !.message = <<"Retries", "exhausted">>]]
Thrown(error) == [kind |-> "throw", val |-> NoVal, err |-> error]

\* if (!apiKey) throw new Error("API Key is required")
KeyMissing_Never(apiKey) == FALSE
KeyMissing(apiKey) == apiKey = ""

\* ------------------------------------------------------------------------
\* Texts
\* ------------------------------------------------------------------------
\* {"k":v}
ElemText(k, v) == <<"{", Q, k, Q, ":">> \o v \o <<"}">>

RECURSIVE JoinElems(_, _)
JoinElems(elems, sep) ==
    IF elems = <<>> THEN <<>>
    ELSE IF Len(elems) = 1 THEN elems[1]
    ELSE elems[1] \o sep \o JoinElems(Tail(elems), sep)

ItemsOpen == <<"{", Q, "items", Q, ":", "[">>
ItemsClose == <<"]", "}">>

\* {"items":[e1,e2,...]}
ItemsText(elems, sep) == ItemsOpen \o JoinElems(elems, sep) \o ItemsClose

\* choices[0].message.content as the backend can return it
ContentEmpty == <<>>
ContentValid == ItemsText(<<ElemText("a", <<"1">>), ElemText("a", <<"2">>)>>, <<",">>)
ContentTruncated == ItemsOpen \o ElemText("a", <<"1">>) \o <<",", "{", Q, "a">>
ContentGarbage == <<"Sorry", WS, "x">>
ContentNoItems == <<"{", "}">>
ContentNull == <<"null">>

Contents ==
    {ContentEmpty, ContentValid, ContentTruncated, ContentGarbage, ContentNoItems, ContentNull}

\* what one request to the backend can settle with
BackendOutcomes ==
    [kind : {"error"}, err : BackendErrors, text : {<<>>}]
    \cup [kind : {"content"}, err : {NoErr}, text : Contents]

\* the async function given to withRetry by analyzeBOM and reEstimateItems,
\* from the point where the request settles; `at` marks the error of this attempt
Raised(error, at) == [kind |-> "throw", val |-> NoVal, err |-> [error EXCEPT !.at = at]]

FnResult(outcome, at) ==
    IF outcome.kind = "error" THEN Raised(outcome.err, at)
    ELSE IF outcome.text = <<>> THEN Raised(EmptyResponse, at)
    ELSE LET parsed == cleanAndParseJSON(outcome.text)
         IN  IF ~parsed.ok THEN Raised(MalformedResponse, at)
             ELSE IF parsed.val = Lit("null") THEN Raised(NullItems, at)
             ELSE Resolved(ItemsOf(parsed.val))

\* ------------------------------------------------------------------------
\* Bounds and constants
\* ------------------------------------------------------------------------
\* the largest maxRetries a call is started with
MaxM == 2
\* the number of analyzeBOM / reEstimateItems calls in one behaviour
MaxCalls == 2
\* the largest number of elements of an "items" array given to the sanitizer
MaxElems == 3
\* the delay analyzeBOM and reEstimateItems start withRetry with (ms)
BaseDelay == 2000

ApiKeys == {"", "sk-or-1"}

\* ------------------------------------------------------------------------
\* State
\* ------------------------------------------------------------------------
VARIABLES
    pc,          \* "idle" | "inflight" (request issued) | "backoff" (timer set) | "settled"
    op,          \* "none" | "analyzeBOM" | "reEstimateItems": the call in progress or last made
    apiKey,      \* the call's apiKey argument
    maxRetries,  \* the call's maxRetries argument
    onRetry,     \* whether the call was given an onRetry callback
    retriesLeft, \* withRetry's parameter in the current frame
    delay,       \* withRetry's parameter in the current frame
    attempt,     \* withRetry's parameter in the current frame
    notes,       \* what onRetry was called with, in order, in this call
    errs,        \* the errors fn raised in this call, in order
    waits,       \* the delays given to setTimeout in this call, in order
    calls,       \* the number of times fn was invoked in this call
    result,      \* the call's settled promise
    callNo,      \* calls started so far
    prevWaits,   \* the number of backoff waits of the previous call
    raw,         \* sanitizer check: the text given to cleanAndParseJSON
    payload,     \* sanitizer check: the complete text raw was cut from
    elems,       \* sanitizer check: the element texts of payload
    sep,         \* sanitizer check: the separator between elements
    cutAt,       \* sanitizer check: the length of the prefix of payload kept
    wrap,        \* sanitizer check: what the model put around the payload
    out,         \* sanitizer check: what cleanAndParseJSON gave
    ppc,         \* sanitizer check: "off" | "ready" | "done"
    status,          \* App: AnalysisStatus
    results,         \* App: the result set
    errorMsg,        \* App: the error message, NoMessage for null
    appApiKey,       \* App: the apiKey field of the settings panel
    retryMessage,    \* App: the retry message, NullNote for null
    processingItems, \* App: the items of the status animation
    selectedIndices, \* Dashboard: Set<number>, in insertion order
    isReEstimating,  \* Dashboard: the re-estimating flag
    retryStatus,     \* Dashboard: the retry status, NullNote for null
    flight,          \* Dashboard: "none" | "bulk" | "all", the handler awaiting reEstimateItems
    snap,            \* the results the awaiting (or just ended) handler closed over
    snapSel,         \* indicesArray of the awaiting (or just ended) handler
    frame,           \* withRetry's frame in the call a handler awaits
    sent,            \* what onRetry was called with so far, in order, in that call
    outstanding,     \* analyzeBOM / reEstimateItems calls started and not settled
    lastOp,          \* history: the handler or continuation that ran last
    prev,            \* history: results before lastOp ran
    upd,             \* history: what reEstimateItems resolved with, if lastOp is its continuation
    idx,             \* history: the index given to handleToggleIgnore, if lastOp is that handler
    clicks,          \* history: the number of user events so far
    view,            \* Dashboard: summary and groupedModels of the last render checked
    vpc              \* view check: "off" | "ready" | "done"

retryVars ==
    <<pc, op, apiKey, maxRetries, onRetry, retriesLeft, delay, attempt, notes, errs,
      waits, calls, result, callNo, prevWaits>>
parseVars == <<raw, payload, elems, sep, cutAt, wrap, out, ppc>>
appVars == <<status, results, errorMsg, appApiKey, retryMessage, processingItems>>
dashVars == <<selectedIndices, isReEstimating, retryStatus, flight, snap, snapSel>>
callVars == <<frame, sent, outstanding>>
histVars == <<lastOp, prev, upd, idx, clicks>>
sessVars == <<appVars, dashVars, callVars, histVars>>
viewVars == <<view, vpc>>
vars == <<retryVars, parseVars, sessVars, viewVars>>

RetryInit ==
    /\ pc = "idle"
    /\ op = "none"
    /\ apiKey = ""
    /\ maxRetries = 0
    /\ onRetry = FALSE
    /\ retriesLeft = 0
    /\ delay = 0
    /\ attempt = 0
    /\ notes = <<>>
    /\ errs = <<>>
    /\ waits = <<>>
    /\ calls = 0
    /\ result = NoResult
    /\ callNo = 0
    /\ prevWaits = 0

ParseOff ==
    /\ raw = <<>>
    /\ payload = <<>>
    /\ elems = <<>>
    /\ sep = <<>>
    /\ cutAt = 0
    /\ wrap = "none"
    /\ out = Threw
    /\ ppc = "off"

\* useState(...) of App and of Dashboard
SessInit ==
    /\ status = "IDLE"
    /\ results = <<>>
    /\ errorMsg = <<>>
    /\ appApiKey = ""
    /\ retryMessage = NullNote
    /\ processingItems = <<>>
    /\ selectedIndices = <<>>
    /\ isReEstimating = FALSE
    /\ retryStatus = NullNote
    /\ flight = "none"
    /\ frame = [phase |-> "none", retriesLeft |-> 0, delay |-> 0, attempt |-> 0]
    /\ sent = <<>>
    /\ outstanding = 0
    /\ snap = <<>>
    /\ snapSel = <<>>
    /\ lastOp = "none"
    /\ prev = <<>>
    /\ upd = <<>>
    /\ idx = 0
    /\ clicks = 0

ViewOff ==
    /\ view = <<>>
    /\ vpc = "off"

Init == RetryInit /\ ParseOff /\ SessInit /\ ViewOff

\* ------------------------------------------------------------------------
\* analyzeBOM / reEstimateItems: getAiClient, then withRetry(fn, maxRetries,
\* 2000, onRetry) up to the first await of fn (the request is issued)
\* ------------------------------------------------------------------------
StartCall(name, key, m, cb) ==
    /\ pc \in {"idle", "settled"}
    /\ callNo < MaxCalls
    /\ op' = name
    /\ apiKey' = key
    /\ maxRetries' = m
    /\ onRetry' = cb
    /\ callNo' = callNo + 1
    /\ prevWaits' = Len(waits)
    /\ errs' = <<>>
    /\ waits' = <<>>
    /\ IF KeyMissing(key)
       THEN /\ pc' = "settled"
            /\ result' = Thrown(ConfigurationError)
            /\ retriesLeft' = 0
            /\ delay' = 0
            /\ attempt' = 0
            /\ notes' = <<>>
            /\ calls' = 0
       ELSE /\ pc' = "inflight"
            /\ result' = NoResult
            /\ retriesLeft' = m
            /\ delay' = BaseDelay
            /\ attempt' = 1
            /\ notes' = ClearOnAttempt(<<>>, 1, cb)
            /\ calls' = 1
    /\ UNCHANGED <<parseVars, sessVars, viewVars>>

analyzeBOM ==
    \E key \in ApiKeys, m \in 0..MaxM, cb \in BOOLEAN : StartCall("analyzeBOM", key, m, cb)

reEstimateItems ==
    \E key \in ApiKeys, m \in 0..MaxM, cb \in BOOLEAN : StartCall("reEstimateItems", key, m, cb)

\* the request settles: the rest of fn, then withRetry's return or catch block
\* up to the await of the backoff timer
RequestSettles ==
    /\ pc = "inflight"
    /\ \E outcome \in BackendOutcomes :
        LET r == FnResult(outcome, attempt)
        IN  IF r.kind = "ok"
            THEN /\ result' = r
                 /\ pc' = "settled"
                 /\ UNCHANGED <<errs, notes, waits>>
            ELSE /\ errs' = Append(errs, r.err)
                 /\ IF Exhausted(retriesLeft) \/ ~ShouldRetry(r.err)
                    THEN /\ result' = Thrown(r.err)
                         /\ pc' = "settled"
                         /\ UNCHANGED <<notes, waits>>
                    ELSE /\ notes' = NotifyRetry(notes, attempt, r.err, delay, onRetry)
                         /\ waits' = Append(waits, delay)
                         /\ pc' = "backoff"
                         /\ UNCHANGED result
    /\ UNCHANGED <<op, apiKey, maxRetries, onRetry, retriesLeft, delay, attempt, calls,
                   callNo, prevWaits>>
    /\ UNCHANGED <<parseVars, sessVars, viewVars>>

\* the backoff timer fires: withRetry(fn, retriesLeft - 1, delay * 2, onRetry,
\* attempt + 1) up to the first await of fn
BackoffElapses ==
    /\ pc = "backoff"
    /\ retriesLeft' = retriesLeft - 1
    /\ delay' = NextDelay(delay)
    /\ attempt' = attempt + 1
    /\ notes' = ClearOnAttempt(notes, attempt + 1, onRetry)
    /\ calls' = calls + 1
    /\ pc' = "inflight"
    /\ UNCHANGED <<op, apiKey, maxRetries, onRetry, errs, waits, result, callNo, prevWaits>>
    /\ UNCHANGED <<parseVars, sessVars, viewVars>>

Next ==
    \/ analyzeBOM
    \/ reEstimateItems
    \/ RequestSettles
    \/ BackoffElapses

Spec == Init /\ [][Next]_vars

\* ------------------------------------------------------------------------
\* The sanitizer on its own: cleanAndParseJSON applied to a model response,
\* which is an {"items":[...]} payload, possibly cut off where the token
\* limit was hit, possibly wrapped in reasoning text or a code fence.
\* ------------------------------------------------------------------------
\* {"a":1}
ElemFlat == ElemText("a", <<"1">>)
\* {"a":{"b":2},"c":3}
ElemNested == <<"{", Q, "a", Q, ":">> \o ElemText("b", <<"2">>) \o <<",", Q, "c", Q, ":", "3", "}">>
\* {"n":"<think>x</think>```"}
ElemMarked == ElemText("n", <<Q, "<think>", "x", "</think>", Fence, Q>>)
\* {"n":"},"}
ElemBraceText == ElemText("n", <<Q, "}", ",", Q>>)

ElemKinds == {ElemFlat, ElemNested, ElemMarked, ElemBraceText}
Seps == {<<",">>, <<",", WS>>, <<WS, ",">>}
\* bare JSON, or reasoning text followed by a fenced json block
Wraps == {"none", "fenced"}

WrapPrefix(w) ==
    IF w = "fenced" THEN <<"<think>", "plan", "</think>", WS, Fence, "json", WS>> ELSE <<>>

WrapSuffix(w) == IF w = "fenced" THEN <<WS, Fence>> ELSE <<>>

\* the response: the payload cut after `cut` tokens; only a complete payload
\* is followed by the closing fence
Response(text, cut, w) ==
    WrapPrefix(w) \o SubSeq(text, 1, cut)
        \o (IF cut = Len(text) THEN WrapSuffix(w) ELSE <<>>)

ParseInit ==
    /\ elems \in UNION {[1..n -> ElemKinds] : n \in 0..MaxElems}
    /\ sep \in Seps
    /\ wrap \in Wraps
    /\ payload = ItemsText(elems, sep)
    /\ cutAt \in 0..Len(payload)
    /\ raw = Response(payload, cutAt, wrap)
    /\ out = Threw
    /\ ppc = "ready"

InitParse == RetryInit /\ ParseInit /\ SessInit /\ ViewOff

Sanitize ==
    /\ ppc = "ready"
    /\ out' = cleanAndParseJSON(raw)
    /\ ppc' = "done"
    /\ UNCHANGED <<raw, payload, elems, sep, cutAt, wrap>>
    /\ UNCHANGED <<retryVars, sessVars, viewVars>>

NextParse == Sanitize

SpecParse == InitParse /\ [][NextParse]_vars

\* ------------------------------------------------------------------------
\* Properties of withRetry, analyzeBOM and reEstimateItems (under Spec)
\* ------------------------------------------------------------------------
Settled == pc = "settled"
\* a call that got past getAiClient
Attempted == calls >= 1
AllRateLimit == \A i \in 1..Len(errs) : isRateLimit(errs[i])
LastErr == errs[Len(errs)]

\* C1: retry budget.  In a call whose every failure is a rate-limit error (the
\* operation fails with a rate-limit error R times, then succeeds): the call
\* returns only after at most maxRetries failures, and it throws only after
\* maxRetries + 1 of them, the error thrown being the rate-limit error of the
\* last attempt made.  So the call succeeds iff maxRetries >= R.
InvC1 ==
    (Settled /\ Attempted /\ AllRateLimit) =>
        /\ result.kind = "ok" => Len(errs) <= maxRetries /\ calls = Len(errs) + 1
        /\ result.kind = "throw" =>
            /\ Len(errs) = maxRetries + 1
            /\ calls = Len(errs)
            /\ result.err = LastErr
            /\ isRateLimit(result.err)

\* a call that succeeded after exactly maxRetries rate-limit failures
WitC1 ==
    /\ Settled /\ AllRateLimit
    /\ result.kind = "ok"
    /\ maxRetries >= 2
    /\ Len(errs) = maxRetries

\* C2 as claimed: the maximum is inclusive of the first attempt, the operation
\* is invoked at most maxRetries times in one call (maxRetries >= 1).
InvC2Claimed == maxRetries >= 1 => calls <= maxRetries

\* C2 as amended: the operation is invoked at most maxRetries + 1 times in one
\* call: the first attempt and at most maxRetries retries.
InvC2 == calls <= maxRetries + 1

\* a call that invoked the operation maxRetries + 1 times
WitC2 == maxRetries >= 1 /\ calls = maxRetries + 1

\* C3: non-retryable short-circuit.  If the operation fails with an error that
\* is neither rate-limit nor parse nor network, the call has settled with that
\* error after exactly one attempt, with no notification and no backoff wait,
\* whatever maxRetries is.
InvC3 ==
    (/\ Len(errs) >= 1
     /\ ~isRateLimit(errs[1])
     /\ ~isParseError(errs[1])
     /\ ~isNetworkError(errs[1])) =>
        /\ Settled
        /\ calls = 1
        /\ notes = <<>>
        /\ waits = <<>>
        /\ result.kind = "throw"
        /\ result.err = errs[1]

\* an authorization failure with the largest retry budget and a callback
WitC3 ==
    /\ Len(errs) = 1
    /\ errs[1].status = 401
    /\ maxRetries = MaxM
    /\ onRetry

\* C4: an empty model response is retryable: the EmptyResponse error reaches
\* the caller only when no retries remain.
InvC4Claimed ==
    (Settled /\ result.kind = "throw" /\ result.err.message = EmptyResponse.message) =>
        Exhausted(retriesLeft)

\* C5: once retries are exhausted, the error thrown is the error object of the
\* last attempt, unchanged, and not the error of an earlier attempt.
InvC5 ==
    (Settled /\ Attempted /\ result.kind = "throw" /\ Len(errs) = maxRetries + 1) =>
        /\ result.err = LastErr
        /\ result.err.at = calls
        /\ \A i \in 1..(Len(errs) - 1) : errs[i] # result.err

\* retries exhausted after failures of different kinds
WitC5 ==
    /\ Settled /\ result.kind = "throw"
    /\ Len(errs) = maxRetries + 1
    /\ Len(errs) >= 3
    /\ errs[1].name # LastErr.name
    /\ errs[2].message # LastErr.message

\* C6: with an empty apiKey, analyzeBOM and reEstimateItems have failed with
\* the configuration error without invoking the operation (no request), with
\* no notification and no backoff wait, whatever maxRetries is.
InvC6 ==
    (op # "none" /\ apiKey = "") =>
        /\ Settled
        /\ result.kind = "throw"
        /\ result.err = ConfigurationError
        /\ calls = 0
        /\ notes = <<>>
        /\ waits = <<>>

\* a call without a key, made after a call that retried
WitC6 ==
    /\ op = "reEstimateItems" /\ apiKey = ""
    /\ maxRetries = MaxM
    /\ onRetry
    /\ prevWaits >= 1

\* the failure category the message of C7 names, in the claimed priority
Category(error) ==
    IF isRateLimit(error) THEN "Rate Limit"
    ELSE IF isParseError(error) THEN "Parse Error"
    ELSE "Network Error"

\* C7: the notifications of a call that has a callback: nothing before the
\* first attempt; the k-th retried failure gives one message naming its
\* category, the number k of the failed attempt and the delay about to be
\* waited; every attempt after the first is preceded by one null.  So the
\* notifications are message, null, message, null, ...
InvC7 ==
    onRetry =>
        /\ Len(notes) = (IF pc = "backoff" THEN 2 * Len(waits) - 1 ELSE 2 * Len(waits))
        /\ Attempted => Len(waits) = (IF pc = "backoff" THEN calls ELSE calls - 1)
        /\ \A i \in 1..Len(notes) :
            IF i % 2 = 0 THEN notes[i] = NullNote
            ELSE LET k == (i + 1) \div 2
                 IN  /\ notes[i].kind = "msg"
                     /\ notes[i].attempt = k
                     /\ notes[i].errorType = Category(errs[k])
                     /\ notes[i].seconds * 1000 = waits[k]

\* a third attempt in flight after failures of two categories
WitC7 ==
    /\ onRetry
    /\ pc = "inflight"
    /\ calls = 3
    /\ notes[1].errorType = "Network Error"
    /\ notes[3].errorType = "Parse Error"
    /\ isNetworkError(errs[2])

RECURSIVE Pow2(_)
Pow2(n) == IF n <= 0 THEN 1 ELSE 2 * Pow2(n - 1)

\* C8: the wait before the k-th retry of a call is 2000 * 2^(k-1) ms; every
\* call starts again at 2000 ms with its full budget of maxRetries retries.
InvC8 ==
    /\ \A k \in 1..Len(waits) : waits[k] = 2000 * Pow2(k - 1)
    /\ Len(waits) <= maxRetries
    /\ pc \in {"inflight", "backoff"} =>
        /\ delay = 2000 * Pow2(attempt - 1)
        /\ retriesLeft = maxRetries - (attempt - 1)
        /\ attempt = calls

\* a second call that retried twice, after a first call that retried twice
WitC8 ==
    /\ callNo = 2
    /\ prevWaits >= 2
    /\ Len(waits) >= 2

\* ------------------------------------------------------------------------
\* Properties of cleanAndParseJSON (under SpecParse)
\* ------------------------------------------------------------------------
Sanitized == ppc = "done"

\* the text is well-formed JSON of the shape {"items": [...]}
WellFormedItems(text) ==
    /\ JSONParse(text).ok
    /\ Member(JSONParse(text).val, <<"items">>).t = "arr"

\* C9: for a well-formed {"items": [...]} text the sanitizer returns the value
\* JSON.parse gives for that text, the elements unchanged.
InvC9Claimed ==
    (Sanitized /\ WellFormedItems(raw)) =>
        /\ out.ok
        /\ out.val = JSONParse(raw).val

\* positions in payload of the first and last token of element k
ElemStart(k) ==
    Len(ItemsOpen) + 1
        + (IF k = 1 THEN 0 ELSE Len(JoinElems(SubSeq(elems, 1, k - 1), sep)) + Len(sep))
ElemEnd(k) == ElemStart(k) + Len(elems[k]) - 1

\* the payload was cut after the end of element k and before element k + 1
CutAfterElem(k) == cutAt >= ElemEnd(k) /\ cutAt < ElemStart(k + 1)

\* the elements of the complete payload
PayloadElems == Member(JSONParse(payload).val, <<"items">>).kids

\* no element holds think or fence text (what becomes of those is C9's matter)
NoMarkers == \A i \in 1..Len(elems) : elems[i] # ElemMarked

\* C10: for a payload cut between element k and element k + 1 (1 <= k < N),
\* the sanitizer returns exactly the first k elements.  Stated for payloads
\* without think or fence text in their strings.
InvC10Claimed ==
    \A k \in 1..(Len(elems) - 1) :
        (Sanitized /\ wrap = "none" /\ NoMarkers /\ CutAfterElem(k)) =>
            /\ out.ok
            /\ ItemsOf(out.val).kids = SubSeq(PayloadElems, 1, k)

\* ------------------------------------------------------------------------
\* The session: App (status, results, errorMsg) and the Dashboard's handlers.
\* A result set is a sequence; position p of the model is index p - 1 of the
\* array.  An absent field is Undefined; a boolean field holds "true" or
\* "false", so that a record has one shape whether or not the field is there.
\* ------------------------------------------------------------------------
Undefined == "undefined"

Item(pn, family, cat, qty, typ, max, btu, ign) ==
    [partNumber |-> pn, modelFamily |-> family, category |-> cat, quantity |-> qty,
     typicalPowerWatts |-> typ, maxPowerWatts |-> max, heatDissipationBTU |-> btu,
     isIgnored |-> ign]

\* the truthiness of r.isIgnored, and !r.isIgnored as stored by the toggle
IsIgnored(r) == r.isIgnored = "true"
Negated_Set(r) == "true"
Negated(r) == IF IsIgnored(r) THEN "false" ELSE "true"

\* the longest "items" array the backend answers with
MaxRows == 3
\* the number of user events in one behaviour
MaxClicks == 6

\* what the backend makes of the rows of a file
RowA == Item("P1", "F1", "Server", 2, 100, 200, 300, Undefined)
RowB == Item("P2", "", "Network", 1, 50, 60, 70, Undefined)
\* the arrays tried: of every length up to MaxRows, the two items in turn
Alternating(a, b, n) == [p \in 1..n |-> IF p % 2 = 1 THEN a ELSE b]
\* an item with the numbers the schema of the prompt does not exclude
RowBad == Item("P3", "F1", "Server", 0 - 1, 0 - 5, 0 - 4, 0 - 17, Undefined)
AnalysedLists == {Alternating(RowA, RowB, n) : n \in 0..MaxRows} \cup {<<RowBad>>}
\* what the backend makes of the items it is asked to re-estimate: the part
\* numbers it answers with need not be the ones it was sent, and isIgnored
\* is among the fields it was sent
UpdA == Item("P2", "F2", "Network", 1, 55, 65, 75, Undefined)
UpdB == Item("P1", "F1", "Server", 2, 110, 210, 310, "true")
ReEstimatedLists ==
    {Alternating(UpdA, UpdB, n) : n \in 0..MaxRows} \cup {Alternating(UpdB, UpdA, n) : n \in 0..MaxRows}

\* reject(new Error("File is empty")); reader.onerror rejects with an event
\* that has no message
FileEmpty == Err("Error", 0, "", <<"File", "is", "empty">>)
ReadFailed == Err("ProgressEvent", 0, "", <<>>)
NoData == Err("Error", 0, "", <<"No", "data", "found", "in", "the", "file.">>)
\* parseExcelFile settles with rows, with no rows, or rejects
ParseOutcomes ==
    [kind : {"rows", "empty"}, err : {NoErr}] \cup [kind : {"rejected"}, err : {FileEmpty, ReadFailed}]

\* what a call of analyzeBOM / reEstimateItems settles with: the items of
\* the last response, or the error withRetry gave up on
SessionErrors == {Http401, MalformedResponse}
CallOutcomes(lists) ==
    [kind : {"ok"}, items : lists, err : {NoErr}]
        \cup [kind : {"throw"}, items : {<<>>}, err : SessionErrors]

NoMessage == <<>>
KeyPrompt == <<"Please", "enter", "your", "OpenRouter", "API", "Key.">>
\* err.message || "An unexpected error occurred."
ErrorText(err) ==
    IF err.message = <<>> THEN <<"An", "unexpected", "error", "occurred.">> ELSE err.message

\* newSelected.has(index) ? delete : add, on an insertion-ordered Set
Has(set, index) == \E k \in 1..Len(set) : set[k] = index
Toggled(set, index) ==
    IF Has(set, index) THEN SelectSeq(set, LAMBDA e : e # index) ELSE Append(set, index)

\* the body of indicesArray.forEach: if (updatedItems[i]) newResults[originalIndex] = updatedItems[i]
Replaced_Last(newResults, originalIndex, updatedItems, i) ==
    IF updatedItems = <<>> THEN newResults
    ELSE IF i <= Len(updatedItems) THEN [newResults EXCEPT ![originalIndex] = updatedItems[i]]
    ELSE [newResults EXCEPT ![originalIndex] = updatedItems[Len(updatedItems)]]
Replaced_ByPartNumber(newResults, originalIndex, updatedItems, i) ==
    IF \E k \in 1..Len(updatedItems) :
            updatedItems[k].partNumber = newResults[originalIndex].partNumber
    THEN [newResults EXCEPT
            ![originalIndex] = updatedItems[CHOOSE k \in 1..Len(updatedItems) :
                updatedItems[k].partNumber = newResults[originalIndex].partNumber]]
    ELSE newResults
Replaced(newResults, originalIndex, updatedItems, i) ==
    IF i <= Len(updatedItems)
    THEN [newResults EXCEPT ![originalIndex] = updatedItems[i]]
    ELSE newResults

RECURSIVE MergeFrom(_, _, _, _)
MergeFrom(newResults, indicesArray, updatedItems, i) ==
    IF i > Len(indicesArray) THEN newResults
    ELSE MergeFrom(Replaced(newResults, indicesArray[i], updatedItems, i),
                   indicesArray, updatedItems, i + 1)

\* handleBulkReEstimate, lines 609-613: newResults = [...results], then the forEach
Merged(res, indicesArray, updatedItems) == MergeFrom(res, indicesArray, updatedItems, 1)

\* handleBulkReEstimate, lines 603-617: the results after the try and catch
\* blocks; `current` is what App holds when the await ends
BulkUpdate_ClearOnFail(current, res, indicesArray, outcome) ==
    IF outcome.kind = "ok" THEN Merged(res, indicesArray, outcome.items) ELSE <<>>
BulkUpdate(current, res, indicesArray, outcome) ==
    IF outcome.kind = "ok" THEN Merged(res, indicesArray, outcome.items) ELSE current

\* handleReEstimateAll, lines 630-632: what is given to onUpdateResults
Adopted(res, updatedItems) == updatedItems

\* a user event; the count bounds the length of a behaviour
Click ==
    /\ clicks < MaxClicks
    /\ clicks' = clicks + 1

\* isProcessing of the UploadZone: the drop zone takes no pointer event and
\* the file input is disabled
isProcessing_ParsingOnly == status = "PARSING"
isProcessing == status = "PARSING" \/ status = "ANALYZING"

\* useState(3) of maxRetries
DefaultMaxRetries == 3
\* sampleItems of a file with rows
SampleItems == <<"C9300-48P">>

\* withRetry's frame of the call a handler awaits
NoFrame == [phase |-> "none", retriesLeft |-> 0, delay |-> 0, attempt |-> 0]
FirstFrame ==
    [phase |-> "request", retriesLeft |-> DefaultMaxRetries, delay |-> BaseDelay, attempt |-> 1]

\* (msg) => setRetryMessage(msg), (msg) => setRetryStatus(msg): what the
\* caller holds once onRetry was, or was not, called
Held(current, before, after) ==
    IF Len(after) > Len(before) THEN after[Len(after)] ELSE current

\* what is left of the closure of a handler once it has ended and another
\* event has come: nothing
Closure(kept) == IF flight = "none" THEN <<>> ELSE kept

\* the settings panel, rendered with the UploadZone while the status is not
\* COMPLETE: onChange={(e) => setApiKey(e.target.value)}
setApiKey ==
    /\ status # "COMPLETE"
    /\ Click
    /\ \E key \in ApiKeys : key # appApiKey /\ appApiKey' = key
    /\ lastOp' = "setApiKey"
    /\ prev' = results
    /\ UNCHANGED <<status, results, errorMsg, retryMessage, processingItems>>
    /\ UNCHANGED <<dashVars, callVars>>
    /\ UNCHANGED <<retryVars, parseVars, viewVars>>
    /\ upd' = <<>>
    /\ idx' = 0

\* handleFileSelect up to its first await.  The UploadZone is rendered while
\* the status is not COMPLETE and takes no file while isProcessing.
handleFileSelect ==
    /\ status # "COMPLETE"
    /\ ~isProcessing
    /\ Click
    /\ prev' = results
    /\ IF KeyMissing(appApiKey)
       THEN /\ errorMsg' = KeyPrompt
            /\ lastOp' = "fileNoKey"
            /\ UNCHANGED <<status, processingItems, retryMessage>>
       ELSE /\ status' = "PARSING"
            /\ errorMsg' = NoMessage
            /\ processingItems' = <<>>
            /\ retryMessage' = NullNote
            /\ lastOp' = "fileSelect"
    /\ UNCHANGED <<results, appApiKey, dashVars, callVars>>
    /\ UNCHANGED <<retryVars, parseVars, viewVars>>
    /\ upd' = <<>>
    /\ idx' = 0

\* handleFileSelect from the await of parseExcelFile to the await of
\* analyzeBOM (the 500 ms timer before the call is part of the step)
ParseSettles ==
    /\ status = "PARSING"
    /\ \E outcome \in ParseOutcomes :
        IF outcome.kind = "rows"
        THEN /\ status' = "ANALYZING"
             /\ processingItems' = SampleItems
             /\ frame' = FirstFrame
             /\ sent' = <<>>
             /\ outstanding' = outstanding + 1
             /\ lastOp' = "parseOk"
             /\ UNCHANGED errorMsg
        ELSE /\ status' = "ERROR"
             /\ errorMsg' = ErrorText(IF outcome.kind = "empty" THEN NoData ELSE outcome.err)
             /\ lastOp' = "parseFail"
             /\ UNCHANGED <<processingItems, callVars>>
    /\ prev' = results
    /\ UNCHANGED <<results, appApiKey, retryMessage, dashVars, clicks>>
    /\ UNCHANGED <<retryVars, parseVars, viewVars>>
    /\ upd' = <<>>
    /\ idx' = 0

\* withRetry's catch block in the call awaited: a retryable failure with
\* retries left; onRetry(msg), then the timer is set
RequestRetried ==
    /\ frame.phase = "request"
    /\ ~Exhausted(frame.retriesLeft)
    /\ \E error \in {e \in SessionErrors : ShouldRetry(e)} :
        sent' = NotifyRetry(sent, frame.attempt, error, frame.delay, TRUE)
    /\ frame' = [frame EXCEPT !.phase = "backoff"]
    /\ IF flight = "none"
       THEN retryMessage' = Held(retryMessage, sent, sent') /\ UNCHANGED retryStatus
       ELSE retryStatus' = Held(retryStatus, sent, sent') /\ UNCHANGED retryMessage
    /\ lastOp' = "retryNote"
    /\ prev' = results
    /\ UNCHANGED <<status, results, errorMsg, appApiKey, processingItems>>
    /\ UNCHANGED <<selectedIndices, isReEstimating, flight, snap, snapSel>>
    /\ UNCHANGED <<outstanding, clicks>>
    /\ UNCHANGED <<retryVars, parseVars, viewVars>>
    /\ upd' = <<>>
    /\ idx' = 0

\* the timer fires: withRetry(fn, retriesLeft - 1, delay * 2, onRetry,
\* attempt + 1) up to the await of fn
BackoffEnds ==
    /\ frame.phase = "backoff"
    /\ frame' = [phase |-> "request", retriesLeft |-> frame.retriesLeft - 1,
                 delay |-> NextDelay(frame.delay), attempt |-> frame.attempt + 1]
    /\ sent' = ClearOnAttempt(sent, frame.attempt + 1, TRUE)
    /\ IF flight = "none"
       THEN retryMessage' = Held(retryMessage, sent, sent') /\ UNCHANGED retryStatus
       ELSE retryStatus' = Held(retryStatus, sent, sent') /\ UNCHANGED retryMessage
    /\ lastOp' = "retryClear"
    /\ prev' = results
    /\ UNCHANGED <<status, results, errorMsg, appApiKey, processingItems>>
    /\ UNCHANGED <<selectedIndices, isReEstimating, flight, snap, snapSel>>
    /\ UNCHANGED <<outstanding, clicks>>
    /\ UNCHANGED <<retryVars, parseVars, viewVars>>
    /\ upd' = <<>>
    /\ idx' = 0

\* what withRetry lets the awaited call settle with in its current frame: a
\* value, an error it does not retry, or a retryable one with no retries left
CanSettle(outcome) ==
    /\ frame.phase = "request"
    /\ outcome.kind = "throw" => ~ShouldRetry(outcome.err) \/ Exhausted(frame.retriesLeft)

\* handleFileSelect from the await of analyzeBOM to its end
AnalysisSettles ==
    /\ status = "ANALYZING"
    /\ \E outcome \in CallOutcomes(AnalysedLists) :
        /\ CanSettle(outcome)
        /\ IF outcome.kind = "ok"
           THEN /\ results' = outcome.items
                /\ status' = "COMPLETE"
                /\ lastOp' = "analysisOk"
                /\ UNCHANGED errorMsg
           ELSE /\ status' = "ERROR"
                /\ errorMsg' = ErrorText(outcome.err)
                /\ lastOp' = "analysisFail"
                /\ UNCHANGED results
    /\ frame' = NoFrame
    /\ sent' = <<>>
    /\ outstanding' = outstanding - 1
    /\ prev' = results
    /\ UNCHANGED <<appApiKey, retryMessage, processingItems, dashVars, clicks>>
    /\ UNCHANGED <<retryVars, parseVars, viewVars>>
    /\ upd' = <<>>
    /\ idx' = 0

\* a reset that forgets setResults([]) and setRetryMessage(null)
handleReset_StatusOnly ==
    /\ \/ status = "ERROR"
       \/ status = "COMPLETE" /\ ~isReEstimating
    /\ Click
    /\ status' = "IDLE"
    /\ errorMsg' = NoMessage
    /\ selectedIndices' = <<>>
    /\ lastOp' = "reset"
    /\ prev' = results
    /\ UNCHANGED <<results, appApiKey, retryMessage, processingItems>>
    /\ UNCHANGED <<isReEstimating, retryStatus, flight, snap, snapSel>>
    /\ UNCHANGED <<callVars>>
    /\ UNCHANGED <<retryVars, parseVars, viewVars>>
    /\ upd' = <<>>
    /\ idx' = 0

\* "Try Again" of the error box, "Reset Analysis" of the Dashboard (disabled
\* while isReEstimating); the Dashboard and its state go with the status
handleReset ==
    /\ \/ status = "ERROR"
       \/ status = "COMPLETE" /\ ~isReEstimating
    /\ Click
    /\ status' = "IDLE"
    /\ results' = <<>>
    /\ errorMsg' = NoMessage
    /\ processingItems' = <<>>
    /\ retryMessage' = NullNote
    /\ selectedIndices' = <<>>
    /\ lastOp' = "reset"
    /\ prev' = results
    /\ UNCHANGED <<appApiKey, isReEstimating, retryStatus, flight>>
    /\ UNCHANGED <<callVars>>
    /\ UNCHANGED <<retryVars, parseVars, viewVars>>
    /\ upd' = <<>>
    /\ idx' = 0
    /\ snap' = <<>>
    /\ snapSel' = <<>>

\* the checkbox of a row.  Scenario bound: the selection is not changed
\* while Re-estimate All is awaiting its answer.
handleCheckboxChange ==
    /\ status = "COMPLETE"
    /\ flight # "all"
    /\ Click
    /\ \E index \in 1..Len(results) : selectedIndices' = Toggled(selectedIndices, index)
    /\ lastOp' = "checkbox"
    /\ prev' = results
    /\ snap' = Closure(snap)
    /\ snapSel' = Closure(snapSel)
    /\ UNCHANGED <<appVars, isReEstimating, retryStatus, flight>>
    /\ UNCHANGED <<callVars>>
    /\ UNCHANGED <<retryVars, parseVars, viewVars>>
    /\ upd' = <<>>
    /\ idx' = 0

\* the eye button of a row (never disabled)
handleToggleIgnore ==
    /\ status = "COMPLETE"
    /\ Click
    /\ \E index \in 1..Len(results) :
        /\ results' = [results EXCEPT ![index].isIgnored = Negated(results[index])]
        /\ idx' = index
    /\ lastOp' = "toggle"
    /\ prev' = results
    /\ snap' = Closure(snap)
    /\ snapSel' = Closure(snapSel)
    /\ UNCHANGED <<status, errorMsg, appApiKey, retryMessage, processingItems>>
    /\ UNCHANGED <<selectedIndices, isReEstimating, retryStatus, flight, callVars>>
    /\ UNCHANGED <<retryVars, parseVars, viewVars>>
    /\ upd' = <<>>

\* handleBulkReEstimate up to the await of reEstimateItems; with no API key
\* getAiClient throws inside reEstimateItems and the handler runs to its end
handleBulkReEstimate ==
    /\ status = "COMPLETE"
    /\ ~isReEstimating
    /\ Len(selectedIndices) > 0
    /\ Click
    /\ snap' = results
    /\ snapSel' = selectedIndices
    /\ retryStatus' = NullNote
    /\ prev' = results
    /\ IF KeyMissing(appApiKey)
       THEN /\ lastOp' = "bulkFail"
            /\ UNCHANGED <<isReEstimating, flight, callVars>>
       ELSE /\ isReEstimating' = TRUE
            /\ flight' = "bulk"
            /\ frame' = FirstFrame
            /\ sent' = <<>>
            /\ outstanding' = outstanding + 1
            /\ lastOp' = "bulkStart"
    /\ UNCHANGED <<appVars, selectedIndices>>
    /\ UNCHANGED <<retryVars, parseVars, viewVars>>
    /\ upd' = <<>>
    /\ idx' = 0

\* a handler without the finally block: the flag is cleared after the try
\* block only
BulkSettles_NoFinally ==
    /\ flight = "bulk"
    /\ \E outcome \in CallOutcomes(ReEstimatedLists) :
        /\ CanSettle(outcome)
        /\ results' = BulkUpdate(results, snap, snapSel, outcome)
        /\ IF outcome.kind = "ok"
           THEN /\ selectedIndices' = <<>>
                /\ upd' = outcome.items
                /\ isReEstimating' = FALSE
                /\ lastOp' = "bulkOk"
           ELSE /\ lastOp' = "bulkFail"
                /\ upd' = <<>>
                /\ UNCHANGED <<selectedIndices, isReEstimating>>
    /\ retryStatus' = NullNote
    /\ flight' = "none"
    /\ frame' = NoFrame
    /\ sent' = <<>>
    /\ outstanding' = outstanding - 1
    /\ prev' = results
    /\ UNCHANGED <<status, errorMsg, appApiKey, retryMessage, processingItems>>
    /\ UNCHANGED <<snap, snapSel, clicks>>
    /\ UNCHANGED <<retryVars, parseVars, viewVars>>
    /\ idx' = 0

\* handleBulkReEstimate from the await to its end
BulkSettles ==
    /\ flight = "bulk"
    /\ \E outcome \in CallOutcomes(ReEstimatedLists) :
        /\ CanSettle(outcome)
        /\ results' = BulkUpdate(results, snap, snapSel, outcome)
        /\ IF outcome.kind = "ok"
           THEN /\ selectedIndices' = <<>>
                /\ upd' = outcome.items
                /\ lastOp' = "bulkOk"
           ELSE /\ lastOp' = "bulkFail"
                /\ upd' = <<>>
                /\ UNCHANGED selectedIndices
    /\ isReEstimating' = FALSE
    /\ retryStatus' = NullNote
    /\ flight' = "none"
    /\ frame' = NoFrame
    /\ sent' = <<>>
    /\ outstanding' = outstanding - 1
    /\ prev' = results
    /\ UNCHANGED <<status, errorMsg, appApiKey, retryMessage, processingItems>>
    /\ UNCHANGED <<snap, snapSel, clicks>>
    /\ UNCHANGED <<retryVars, parseVars, viewVars>>
    /\ idx' = 0

\* handleReEstimateAll up to the await of reEstimateItems, window.confirm
\* answered with OK; the button is there when nothing is selected
handleReEstimateAll ==
    /\ status = "COMPLETE"
    /\ ~isReEstimating
    /\ Len(selectedIndices) = 0
    /\ Len(results) # 0
    /\ Click
    /\ snap' = results
    /\ snapSel' = <<>>
    /\ retryStatus' = NullNote
    /\ prev' = results
    /\ IF KeyMissing(appApiKey)
       THEN /\ lastOp' = "allFail"
            /\ UNCHANGED <<isReEstimating, flight, callVars>>
       ELSE /\ isReEstimating' = TRUE
            /\ flight' = "all"
            /\ frame' = FirstFrame
            /\ sent' = <<>>
            /\ outstanding' = outstanding + 1
            /\ lastOp' = "allStart"
    /\ UNCHANGED <<appVars, selectedIndices>>
    /\ UNCHANGED <<retryVars, parseVars, viewVars>>
    /\ upd' = <<>>
    /\ idx' = 0

\* handleReEstimateAll from the await to its end
AllSettles ==
    /\ flight = "all"
    /\ \E outcome \in CallOutcomes(ReEstimatedLists) :
        /\ CanSettle(outcome)
        /\ IF outcome.kind = "ok"
           THEN /\ upd' = outcome.items
                /\ IF Len(outcome.items) > 0
                   THEN /\ results' = Adopted(snap, outcome.items)
                        /\ lastOp' = "allOk"
                   ELSE /\ lastOp' = "allNone"
                        /\ UNCHANGED results
           ELSE /\ lastOp' = "allFail"
                /\ upd' = <<>>
                /\ UNCHANGED results
    /\ isReEstimating' = FALSE
    /\ retryStatus' = NullNote
    /\ flight' = "none"
    /\ frame' = NoFrame
    /\ sent' = <<>>
    /\ outstanding' = outstanding - 1
    /\ prev' = results
    /\ UNCHANGED <<status, errorMsg, appApiKey, retryMessage, processingItems>>
    /\ UNCHANGED <<selectedIndices, snap, snapSel, clicks>>
    /\ UNCHANGED <<retryVars, parseVars, viewVars>>
    /\ idx' = 0

NextSession ==
    \/ setApiKey
    \/ handleFileSelect
    \/ ParseSettles
    \/ RequestRetried
    \/ BackoffEnds
    \/ AnalysisSettles
    \/ handleReset
    \/ handleCheckboxChange
    \/ handleToggleIgnore
    \/ handleBulkReEstimate
    \/ BulkSettles
    \/ handleReEstimateAll
    \/ AllSettles

SpecSession == Init /\ [][NextSession]_vars

\* ------------------------------------------------------------------------
\* Properties of the session (under SpecSession)
\* ------------------------------------------------------------------------
\* C11: in every reachable state the result set is non-empty if and only if
\* the status is COMPLETE; the session is never COMPLETE with no results.
InvC11Claimed == (Len(results) > 0) <=> (status = "COMPLETE")

InvC13 ==
    (lastOp = "bulkOk" /\ Len(upd) < Len(snapSel)) =>
        /\ Len(results) = Len(snap)
        /\ \A i \in 1..Len(snapSel) :
            results[snapSel[i]] = IF i <= Len(upd) THEN upd[i] ELSE snap[snapSel[i]]
        /\ \A p \in 1..Len(snap) : ~Has(snapSel, p) => results[p] = snap[p]
        /\ status = "COMPLETE"
        /\ errorMsg = NoMessage

\* two records asked for, one returned
WitC13 ==
    /\ lastOp = "bulkOk"
    /\ Len(snapSel) = 2
    /\ Len(upd) = 1
    /\ results[snapSel[1]] # snap[snapSel[1]]
    /\ results[snapSel[2]] = snap[snapSel[2]]

\* a result set without its ignore flags
Unflagged(res) == [p \in 1..Len(res) |-> [res[p] EXCEPT !.isIgnored = Undefined]]

InvC15Claimed ==
    lastOp \in {"toggle", "bulkOk", "bulkFail", "allOk", "allNone", "allFail"} =>
        Len(results) = Len(prev)

\* C16: toggling index i leaves a result set of the same length in which
\* every record but the i-th is the one that was there, and the i-th differs
\* from the one that was there in isIgnored only, which is negated.
InvC16 ==
    lastOp = "toggle" =>
        /\ Len(results) = Len(prev)
        /\ idx \in 1..Len(prev)
        /\ \A p \in 1..Len(prev) : p # idx => results[p] = prev[p]
        /\ [results[idx] EXCEPT !.isIgnored = prev[idx].isIgnored] = prev[idx]
        /\ IsIgnored(results[idx]) = ~IsIgnored(prev[idx])

\* an ignored record among three is toggled back
WitC16 ==
    /\ lastOp = "toggle"
    /\ Len(results) = 3
    /\ idx = 2
    /\ IsIgnored(prev[idx])
    /\ ~IsIgnored(results[idx])

\* ------------------------------------------------------------------------
\* The Dashboard's derived views: summary and groupedModels, computed from
\* results on every render.  A quotient a / b is kept as the pair of a and
\* b, since JavaScript's division is not the division of integers.
\* ------------------------------------------------------------------------
Divided(a, b) == [num |-> a, den |-> b]

\* curr.typicalPowerWatts * curr.quantity, and so on
Metric(r, m) ==
    CASE m = "typical" -> r.typicalPowerWatts * r.quantity
      [] m = "max" -> r.maxPowerWatts * r.quantity
      [] m = "btu" -> r.heatDissipationBTU * r.quantity

\* results.filter(r => !r.isIgnored)
ActiveResults_All(res) == res
ActiveResults(res) == SelectSeq(res, LAMBDA r : ~IsIgnored(r))

\* items.reduce((acc, curr) => acc + metric(curr), 0), from the n-th item down
RECURSIVE Reduced(_, _, _)
Reduced(items, m, n) ==
    IF n = 0 THEN 0 ELSE Reduced(items, m, n - 1) + Metric(items[n], m)

\* an insertion-ordered Map as the sequence of its entries
MapHas(map, name) == \E k \in 1..Len(map) : map[k].name = name
MapGet(map, name) == map[CHOOSE k \in 1..Len(map) : map[k].name = name].value
MapSet(map, name, value) ==
    IF MapHas(map, name)
    THEN [k \in 1..Len(map) |-> IF map[k].name = name THEN [name |-> name, value |-> value] ELSE map[k]]
    ELSE Append(map, [name |-> name, value |-> value])

\* categoryMap.set(r.category, (categoryMap.get(r.category) || 0) + r.maxPowerWatts * r.quantity)
Counted(map, r) ==
    MapSet(map, r.category,
           (IF MapHas(map, r.category) THEN MapGet(map, r.category) ELSE 0) + Metric(r, "max"))

RECURSIVE CategoryMap(_, _)
CategoryMap(active, n) ==
    IF n = 0 THEN <<>> ELSE Counted(CategoryMap(active, n - 1), active[n])

\* Array.prototype.sort with (a, b) => key(b) - key(a): descending, and
\* stable, so that elements with equal keys keep their order
RankDesc(keys, i) ==
    1 + Cardinality({j \in 1..Len(keys) : keys[j] > keys[i] \/ (keys[j] = keys[i] /\ j < i)})
SortedDesc_TiesReversed(seq, keys) ==
    [p \in 1..Len(seq) |->
        seq[CHOOSE i \in 1..Len(seq) :
                p = 1 + Cardinality({j \in 1..Len(keys) :
                                        keys[j] > keys[i] \/ (keys[j] = keys[i] /\ j > i)})]]
SortedDesc(seq, keys) ==
    [p \in 1..Len(seq) |-> seq[CHOOSE i \in 1..Len(seq) : RankDesc(keys, i) = p]]

\* b.value of every entry
Values(map) == [k \in 1..Len(map) |-> map[k].value]

KW == 1000

summary(res) ==
    [totalTypicalKW |-> Divided(Reduced(ActiveResults(res), "typical", Len(ActiveResults(res))), KW),
     totalMaxKW |-> Divided(Reduced(ActiveResults(res), "max", Len(ActiveResults(res))), KW),
     totalBTU |-> Reduced(ActiveResults(res), "btu", Len(ActiveResults(res))),
     breakdown |-> SortedDesc(CategoryMap(ActiveResults(res), Len(ActiveResults(res))),
                              Values(CategoryMap(ActiveResults(res), Len(ActiveResults(res)))))]

\* item.modelFamily || "Miscellaneous Parts"
Family_Raw(item) == item.modelFamily
Family(item) ==
    IF item.modelFamily \in {"", Undefined} THEN "Miscellaneous Parts" ELSE item.modelFamily

HasGroup(groups, family) == \E k \in 1..Len(groups) : groups[k].modelFamily = family
GroupAt(groups, family) == CHOOSE k \in 1..Len(groups) : groups[k].modelFamily = family

\* if (!groups.has(family)) groups.set(family, {...})
WithGroup(groups, family, item) ==
    IF HasGroup(groups, family) THEN groups
    ELSE Append(groups, [modelFamily |-> family, totalTypical |-> 0, totalMax |-> 0,
                         totalBTU |-> 0, items |-> <<>>, category |-> item.category])

\* { ...item, originalIndex: index }; position index of the model is array
\* index index - 1
Indexed(item, index) == [item |-> item, originalIndex |-> index]

\* if (!item.isIgnored) group.total += ...
Counts_Always(item) == TRUE
Counts(item) == ~IsIgnored(item)

\* group.items.push(...) and the three additions
Pushed(group, item, index) ==
    [group EXCEPT
        !.items = Append(@, Indexed(item, index)),
        !.totalTypical = IF Counts(item) THEN @ + Metric(item, "typical") ELSE @,
        !.totalMax = IF Counts(item) THEN @ + Metric(item, "max") ELSE @,
        !.totalBTU = IF Counts(item) THEN @ + Metric(item, "btu") ELSE @]

Visited(groups, family, item, index) ==
    [groups EXCEPT ![GroupAt(groups, family)] = Pushed(@, item, index)]

\* the body of results.forEach((item, index) => ...)
Visit(groups, item, index) ==
    Visited(WithGroup(groups, Family(item), item), Family(item), item, index)

RECURSIVE Groups(_, _)
Groups(res, n) ==
    IF n = 0 THEN <<>> ELSE Visit(Groups(res, n - 1), res[n], n)

\* b.totalMax of every group
TotalMaxes(groups) == [k \in 1..Len(groups) |-> groups[k].totalMax]

groupedModels(res) == SortedDesc(Groups(res, Len(res)), TotalMaxes(Groups(res, Len(res))))

\* the longest result set rendered
MaxShown == 3

\* records of two named families, of no family and of an absent family; two
\* categories; a power supply with all metrics zero
ShownItems ==
    {[r EXCEPT !.isIgnored = f] :
        r \in {Item("C9300-48P", "F1", "Network", 2, 100, 200, 300, Undefined),
               Item("R650", "F2", "Server", 1, 300, 400, 500, Undefined),
               Item("CAB-1", "", "Server", 1, 10, 20, 30, Undefined),
               Item("SFP-10G", Undefined, "Network", 3, 1, 2, 3, Undefined),
               Item("PWR-715", "F1", "Power", 2, 0, 0, 0, Undefined)},
        f \in {Undefined, "true"}}
        \cup {Item("C9300-48P", "F1", "Network", 2, 100, 200, 300, "false")}

\* a COMPLETE session holding any result set of the records above
ViewInit ==
    /\ status = "COMPLETE"
    /\ results \in UNION {[1..n -> ShownItems] : n \in 0..MaxShown}
    /\ errorMsg = NoMessage
    /\ appApiKey = "sk-or-1"
    /\ retryMessage = NullNote
    /\ processingItems = <<>>
    /\ selectedIndices = <<>>
    /\ isReEstimating = FALSE
    /\ retryStatus = NullNote
    /\ flight = "none"
    /\ frame = NoFrame
    /\ sent = <<>>
    /\ outstanding = 0
    /\ snap = <<>>
    /\ snapSel = <<>>
    /\ lastOp = "analysisOk"
    /\ prev = <<>>
    /\ upd = <<>>
    /\ idx = 0
    /\ clicks = 0
    /\ view = <<>>
    /\ vpc = "ready"

InitView == RetryInit /\ ParseOff /\ ViewInit

\* a render of the Dashboard: the two useMemo bodies
Render ==
    /\ vpc = "ready"
    /\ view' = [summary |-> summary(results), groupedModels |-> groupedModels(results)]
    /\ vpc' = "done"
    /\ UNCHANGED <<retryVars, parseVars, sessVars>>

NextView == Render

SpecView == InitView /\ [][NextView]_vars

Rendered == vpc = "done"

\* ------------------------------------------------------------------------
\* Properties of the derived views (under SpecView)
\* ------------------------------------------------------------------------
\* the sum of (per-unit metric x quantity) over the positions of res in `wanted`
SumOver(res, m, wanted) ==
    LET partial[n \in 0..Len(res)] ==
            IF n = 0 THEN 0
            ELSE partial[n - 1] + (IF n \in wanted THEN Metric(res[n], m) ELSE 0)
    IN  partial[Len(res)]

NotIgnored(r) == r.isIgnored # "true"

\* the key the grouping rule gives a record
GroupKey(r) ==
    IF r.modelFamily = "" \/ r.modelFamily = Undefined THEN "Miscellaneous Parts"
    ELSE r.modelFamily

\* the positions of the non-ignored records, of those of a category, of those of a key
CountedIn(res) == {p \in 1..Len(res) : NotIgnored(res[p])}
CountedOfCategory(res, name) == {p \in CountedIn(res) : res[p].category = name}
CountedOfKey(res, key) == {p \in CountedIn(res) : GroupKey(res[p]) = key}

\* res with the numeric fields of record p replaced
Renumbered(res, p, qty, typ, max, btu) ==
    [res EXCEPT ![p] = [@ EXCEPT !.quantity = qty, !.typicalPowerWatts = typ,
                                 !.maxPowerWatts = max, !.heatDissipationBTU = btu]]

OtherNumbers == {<<1, 0, 0, 0>>, <<5, 700, 900, 1100>>}

\* C17: the Summary's total typical kW, total max kW and total BTU are the
\* sums of (per-unit metric x quantity) over the non-ignored records, the kW
\* totals being watts / 1000; its breakdown has one entry for every category
\* of a non-ignored record, whose value is the sum of (max watts x quantity)
\* over the non-ignored records of that category; and a result set that
\* differs only in the numeric fields of an ignored record has the same Summary.
InvC17 ==
    Rendered =>
        /\ view.summary.totalTypicalKW = Divided(SumOver(results, "typical", CountedIn(results)), 1000)
        /\ view.summary.totalMaxKW = Divided(SumOver(results, "max", CountedIn(results)), 1000)
        /\ view.summary.totalBTU = SumOver(results, "btu", CountedIn(results))
        /\ \A p \in 1..Len(results) :
            NotIgnored(results[p]) =>
                \E k \in 1..Len(view.summary.breakdown) :
                    view.summary.breakdown[k].name = results[p].category
        /\ \A k \in 1..Len(view.summary.breakdown) :
            /\ \E p \in 1..Len(results) :
                NotIgnored(results[p]) /\ results[p].category = view.summary.breakdown[k].name
            /\ \A j \in 1..Len(view.summary.breakdown) :
                view.summary.breakdown[j].name = view.summary.breakdown[k].name => j = k
            /\ view.summary.breakdown[k].value =
                SumOver(results, "max", CountedOfCategory(results, view.summary.breakdown[k].name))
        /\ \A p \in 1..Len(results), n \in OtherNumbers :
            ~NotIgnored(results[p]) =>
                summary(Renumbered(results, p, n[1], n[2], n[3], n[4])) = view.summary

\* an ignored record with power, two non-ignored records of two categories
WitC17 ==
    /\ Rendered
    /\ Len(results) = 3
    /\ \E p \in 1..Len(results) : ~NotIgnored(results[p]) /\ results[p].maxPowerWatts > 0
    /\ Len(view.summary.breakdown) = 2
    /\ view.summary.totalMaxKW.num > 0
    /\ view.summary.totalMaxKW.num < SumOver(results, "max", 1..Len(results))

\* the places (group, member) where position p of the result set is shown
PlacesOf(groups, p) ==
    {<<k, j>> \in (1..Len(groups)) \X (1..MaxShown + 1) :
        j <= Len(groups[k].items) /\ groups[k].items[j].originalIndex = p}

\* C18: every record of the result set, ignored or not, is a member of
\* exactly one group, the one keyed by its modelFamily, or by "Miscellaneous
\* Parts" when its modelFamily is empty or absent; there are as many groups
\* as distinct keys; every member carries its position in the result set as
\* originalIndex.
InvC18 ==
    Rendered =>
        /\ \A p \in 1..Len(results) :
            /\ Cardinality(PlacesOf(view.groupedModels, p)) = 1
            /\ \A pl \in PlacesOf(view.groupedModels, p) :
                /\ view.groupedModels[pl[1]].modelFamily = GroupKey(results[p])
                /\ view.groupedModels[pl[1]].items[pl[2]].item = results[p]
        /\ \A k \in 1..Len(view.groupedModels) :
            /\ Len(view.groupedModels[k].items) > 0
            /\ \A j \in 1..Len(view.groupedModels[k].items) :
                view.groupedModels[k].items[j].originalIndex \in 1..Len(results)
        /\ Len(view.groupedModels) = Cardinality({GroupKey(results[p]) : p \in 1..Len(results)})

\* a record of no family and a record of an absent family, one of them
\* ignored, share the fallback group; a third record has a family
WitC18 ==
    /\ Rendered
    /\ Len(results) = 3
    /\ results[1].modelFamily = ""
    /\ IsIgnored(results[1])
    /\ results[2].modelFamily = "F1"
    /\ results[3].modelFamily = Undefined
    /\ Len(view.groupedModels) = 2
    /\ \E k \in 1..2 :
        /\ view.groupedModels[k].modelFamily = "Miscellaneous Parts"
        /\ Len(view.groupedModels[k].items) = 2
        /\ view.groupedModels[k].items[2].originalIndex = 3

\* C19: each group's totalTypical, totalMax and totalBTU are the sums of
\* (per-unit metric x quantity) over the non-ignored records of its key, and
\* the group of a key whose records are all ignored is there, with totals zero.
InvC19 ==
    Rendered =>
        /\ \A k \in 1..Len(view.groupedModels) :
            /\ view.groupedModels[k].totalTypical =
                SumOver(results, "typical", CountedOfKey(results, view.groupedModels[k].modelFamily))
            /\ view.groupedModels[k].totalMax =
                SumOver(results, "max", CountedOfKey(results, view.groupedModels[k].modelFamily))
            /\ view.groupedModels[k].totalBTU =
                SumOver(results, "btu", CountedOfKey(results, view.groupedModels[k].modelFamily))
        /\ \A p \in 1..Len(results) :
            \E k \in 1..Len(view.groupedModels) :
                /\ view.groupedModels[k].modelFamily = GroupKey(results[p])
                /\ (\A q \in 1..Len(results) :
                        GroupKey(results[q]) = GroupKey(results[p]) => ~NotIgnored(results[q]))
                    => /\ view.groupedModels[k].totalTypical = 0
                       /\ view.groupedModels[k].totalMax = 0
                       /\ view.groupedModels[k].totalBTU = 0

\* a group with an ignored and a counted member, and a group whose only
\* member is ignored and has power
WitC19 ==
    /\ Rendered
    /\ Len(view.groupedModels) = 2
    /\ \E k \in 1..2 :
        /\ Len(view.groupedModels[k].items) = 2
        /\ IsIgnored(view.groupedModels[k].items[1].item)
        /\ view.groupedModels[k].items[1].item.maxPowerWatts > 0
        /\ ~IsIgnored(view.groupedModels[k].items[2].item)
        /\ view.groupedModels[k].totalMax > 0
    /\ \E k \in 1..2 :
        /\ Len(view.groupedModels[k].items) = 1
        /\ IsIgnored(view.groupedModels[k].items[1].item)
        /\ view.groupedModels[k].items[1].item.maxPowerWatts > 0
        /\ view.groupedModels[k].totalMax = 0

\* C20: the groups are in descending order of totalMax, and groups with the
\* same totalMax are in the order in which their first members appear in
\* the result set.
InvC20 ==
    Rendered =>
        \A k \in 1..(Len(view.groupedModels) - 1) :
            \/ view.groupedModels[k].totalMax > view.groupedModels[k + 1].totalMax
            \/ /\ view.groupedModels[k].totalMax = view.groupedModels[k + 1].totalMax
               /\ view.groupedModels[k].items[1].originalIndex
                    < view.groupedModels[k + 1].items[1].originalIndex

\* three groups: the two with the largest totalMax tie and keep their order
\* of appearance, the group that appeared between them comes last
WitC20 ==
    /\ Rendered
    /\ Len(view.groupedModels) = 3
    /\ view.groupedModels[1].totalMax = view.groupedModels[2].totalMax
    /\ view.groupedModels[2].totalMax > view.groupedModels[3].totalMax
    /\ view.groupedModels[1].items[1].originalIndex = 1
    /\ view.groupedModels[2].items[1].originalIndex = 3
    /\ view.groupedModels[3].items[1].originalIndex = 2

(***************************************************************************)
(* Session transitions (part_000:20-87, 99, 177-192).                      *)
(***************************************************************************)

\* the edges of the session's status the specification allows
AllowedEdges ==
    { <<"IDLE", "PARSING">>, <<"PARSING", "ANALYZING">>,
      <<"ANALYZING", "COMPLETE">>, <<"PARSING", "ERROR">>,
      <<"ANALYZING", "ERROR">>, <<"ERROR", "IDLE">>, <<"COMPLETE", "IDLE">> }

\* C21: the status changes only along Idle->Parsing, Parsing->Analyzing,
\* Analyzing->Complete, Parsing->Error, Analyzing->Error and Reset from Error
\* or Complete to Idle; Parsing is entered only from Idle, and ignore-toggle,
\* bulk re-estimate and re-estimate-all never leave Complete.
InvC21Claimed ==
    [][ /\ status' # status => <<status, status'>> \in AllowedEdges
        /\ status' = "PARSING" /\ status # "PARSING" => status = "IDLE"
        /\ lastOp' \in {"toggle", "bulkStart", "bulkOk", "bulkFail",
                        "allStart", "allOk", "allNone", "allFail"}
               => status = "COMPLETE" /\ status' = "COMPLETE" ]_vars

\* C22: Reset, taken from Error or from Complete, leaves the session Idle
\* with an empty result set, no error message, no retry message and no
\* progress items, whatever it held before.
InvC22 ==
    lastOp = "reset" =>
        /\ status = "IDLE"
        /\ results = <<>>
        /\ errorMsg = NoMessage
        /\ retryMessage = NullNote
        /\ processingItems = <<>>

\* a reset of a Complete session that held records
WitC22 == lastOp = "reset" /\ Len(prev) > 0

\* C23: at most one analyzeBOM / reEstimateItems call is outstanding, and
\* one is outstanding only while the status is ANALYZING or the
\* re-estimating flag is set; while the status is PARSING or ANALYZING, or
\* the flag is set, file selection, Update Selected, Re-estimate All and
\* Reset are not enabled.
InvC23 ==
    /\ outstanding <= 1
    /\ outstanding > 0 => status = "ANALYZING" \/ isReEstimating
    /\ status \in {"PARSING", "ANALYZING"} \/ isReEstimating =>
        /\ ~ENABLED handleFileSelect
        /\ ~ENABLED handleBulkReEstimate
        /\ ~ENABLED handleReEstimateAll
        /\ ~ENABLED handleReset

\* a re-estimation of a selection is outstanding, a row was toggled
\* meanwhile and user events are still to come
WitC23 ==
    /\ outstanding = 1
    /\ isReEstimating
    /\ Len(selectedIndices) > 0
    /\ lastOp = "toggle"
    /\ clicks < MaxClicks

\* C24: every record of the result set has non-negative quantity,
\* typicalPowerWatts, maxPowerWatts and heatDissipationBTU, whatever the
\* backend returned.
InvC24Claimed ==
    \A p \in 1..Len(results) :
        /\ results[p].quantity >= 0
        /\ results[p].typicalPowerWatts >= 0
        /\ results[p].maxPowerWatts >= 0
        /\ results[p].heatDissipationBTU >= 0

\* C25: after a bulk re-estimate or a re-estimate-all every record is
\* ignored exactly if it was before the operation (when the handler started,
\* or just before its answer was merged), whatever the backend returned.
InvC25Claimed ==
    lastOp \in {"bulkOk", "allOk"} =>
        \A p \in 1..Len(results) :
            p <= Len(snap) /\ p <= Len(prev) =>
                \/ IsIgnored(results[p]) = IsIgnored(snap[p])
                \/ IsIgnored(results[p]) = IsIgnored(prev[p])

\* ------------------------------------------------------------------------
\* Repairs of cleanAndParseJSON (under SpecParse)
\* ------------------------------------------------------------------------
\* the payload was cut short, and the elements that lie whole before the cut
Truncated == cutAt < Len(payload)
NumComplete == Cardinality({k \in 1..Len(elems) : ElemEnd(k) <= cutAt})
Repaired == Sanitized /\ Truncated /\ out.via \in {"A", "B"}

\* C26: when cleanAndParseJSON returns through repair A or B on a truncated
\* {"items": [...]} payload, the items returned are the first n complete
\* elements of the payload, in order, for some n; a cut-off element is never
\* among them, and with no complete element the call throws.
InvC26Claimed ==
    /\ Repaired =>
        /\ Len(ItemsOf(out.val).kids) <= NumComplete
        /\ ItemsOf(out.val).kids = SubSeq(PayloadElems, 1, Len(ItemsOf(out.val).kids))
    /\ Sanitized /\ Truncated /\ NumComplete = 0 => ~out.ok

\* C27: a record outside the selection that was toggled while a bulk
\* re-estimation was in flight still has the toggled value once the merge is
\* applied: apart from the selected positions, the result set after the merge
\* is the one held just before it.
InvC27Claimed ==
    lastOp = "bulkOk" =>
        \A p \in 1..Len(results) : ~Has(snapSel, p) => results[p] = prev[p]

\* ------------------------------------------------------------------------
\* Retry notifications in the session (under SpecSession)
\* ------------------------------------------------------------------------
\* C28: wherever a call can settle, which is inside an attempt, the last
\* notification it has delivered, if any, is the null clear; hence the App's
\* retry message is null whenever the status is COMPLETE or ERROR, and the
\* Dashboard's retry status is null whenever no re-estimation is under way.
InvC28 ==
    /\ frame.phase = "request" /\ sent # <<>> => sent[Len(sent)] = NullNote
    /\ status \in {"COMPLETE", "ERROR"} => retryMessage = NullNote
    /\ ~isReEstimating => retryStatus = NullNote

\* an analysis has ended in ERROR with the error of its last attempt, a
\* retryable one, so that every retry was used up and notified
WitC28 ==
    /\ lastOp = "analysisFail"
    /\ status = "ERROR"
    /\ errorMsg = ErrorText(MalformedResponse)

\* C29: the stored error message is non-null only if the status is ERROR,
\* also where a file is selected while the API key is empty.
InvC29Claimed == errorMsg # NoMessage => status = "ERROR"

\* ------------------------------------------------------------------------
\* Progress of the session.  parseExcelFile settles, every request to the
\* backend settles and every backoff timer fires; nothing is assumed of the
\* user.
\* ------------------------------------------------------------------------
RequestEnds == RequestRetried \/ AnalysisSettles \/ BulkSettles \/ AllSettles

SpecSessionLive ==
    /\ Init
    /\ [][NextSession]_vars
    /\ WF_vars(ParseSettles)
    /\ WF_vars(RequestEnds)
    /\ WF_vars(BackoffEnds)

\* an operation the user started has not ended
Busy == status \in {"PARSING", "ANALYZING"} \/ isReEstimating

\* C30: every started operation ends.  A session in PARSING or ANALYZING
\* leaves these two only for COMPLETE or ERROR, and does leave them; a
\* failure of the parser or of the analysis leaves ERROR with a message
\* stored; a call is never retried more often than maxRetries allows; and
\* every re-estimation clears the re-estimating flag, however it ends.
LiveC30 ==
    /\ [](lastOp \in {"parseFail", "analysisFail"} =>
            status = "ERROR" /\ errorMsg # NoMessage)
    /\ [](frame.phase # "none" => frame.attempt <= DefaultMaxRetries + 1)
    /\ [][ (status' # status /\ status \in {"PARSING", "ANALYZING"}) =>
                status' \in {"ANALYZING", "COMPLETE", "ERROR"} ]_vars
    /\ Busy ~> ~Busy

\* a re-estimation of a selection was started with an API key, the call has
\* failed, and the flag is cleared
WitC30 ==
    /\ lastOp = "bulkFail"
    /\ ~KeyMissing(appApiKey)
    /\ Len(snapSel) > 0
    /\ ~isReEstimating

=============================================================================
